---- MODULE Spec2Model ----
(***************************************************************************)
(* The bidirectional session bridge of the ADK streaming demo servers.     *)
(*                                                                         *)
(* One behaviour follows either one WebSocket connection of one of the     *)
(* three WebSocket servers, or the SSE endpoints of src/demo/app/main.py   *)
(* with two streams:                                                    *)
(*   "demo_app"      src/demo/app/main.py        websocket_endpoint        *)
(*   "streaming_app" src/part2/streaming_app.py  ws_handler (the handler   *)
(*                   of src/demo/streaming_app.py has the same two tasks)  *)
(*   "bidi_demo"     src/bidi-demo/app/main.py   websocket_endpoint        *)
(*   "sse"           src/demo/app/main.py        /sse, /sse-send,          *)
(*                                               /sse-close                *)
(*   "streaming_app_sse"  src/demo/streaming_app.py   /sse (no registry,   *)
(*                                               no POST endpoints)        *)
(*                                                                         *)
(* The asyncio event loop is a FIFO queue of callbacks (ready).  A task    *)
(* runs from one suspension point to the next in one step; I/O (an inbound *)
(* frame, a disconnect, an event or failure of run_live) resolves the      *)
(* future a task is suspended on and appends the task's wake-up to ready.  *)
(* A task that finishes schedules its done callback (on_completion), which *)
(* resolves the waiter of asyncio.wait / asyncio.gather and so schedules   *)
(* the handler.  ws.send_text is taken to hand its message to the          *)
(* transport before it can suspend, so a send is part of the step.         *)
(***************************************************************************)
EXTENDS Integers, Sequences, FiniteSets, TLC

\* ---------------------------------------------------------------- bounds
MaxFrames == 3
MaxEvents == 2
MaxQueue == 2
MaxSseEvents == 1
MaxCalls == 3

\* ------------------------------------------------------------ vocabulary
Variants == {"demo_app", "streaming_app", "bidi_demo", "sse", "streaming_app_sse"}
WsVariants == {"demo_app", "streaming_app", "bidi_demo"}
WaitVariants == {"demo_app", "streaming_app"}
SseVariants == {"sse", "streaming_app_sse"}

Tasks == {"upstream", "downstream"}

\* Two concurrent GET /sse requests, "first" opened before "second".
Streams == {"first", "second"}
NoStream == "none"
DEFAULT_SESSION_ID == "demo-session"
SessionIds == {DEFAULT_SESSION_ID, "other-session"}
Messages == {"", "hello"}
InitialMessages == {"", "hi"}

CloseFrame == "{\"close\": true}"
EmptyObjectFrame == "{}"
Frames == {"", "hello", "hi", EmptyObjectFrame, CloseFrame}

\* Frames of the bidi-demo protocol: JSON objects that declare a type, with
\* and without the fields the type needs, and JSON that is not an object.
AudioFrame == "{\"type\": \"audio\", \"data\": \"AQIDBA==\"}"
AudioMimeFrame == "{\"type\": \"audio\", \"mime_type\": \"audio/wav\", \"data\": \"/w==\"}"
AudioNoDataFrame == "{\"type\": \"audio\"}"
AudioBadDataFrame == "{\"type\": \"audio\", \"data\": \"AQI\"}"
TextFrame == "{\"type\": \"text\", \"text\": \"hi\"}"
TextNoTextFrame == "{\"type\": \"text\"}"
ArrayFrame == "[1]"
BidiFrames == {"hello", CloseFrame, AudioFrame, AudioMimeFrame, AudioNoDataFrame,
               AudioBadDataFrame, TextFrame, TextNoTextFrame, ArrayFrame}

\* The frames a client sends to server v, one or two of every class of input
\* the server's loop tells apart.  For the servers built on
\* LiveRequest.model_validate_json a typed JSON object validates like "{}"
\* and a JSON array fails to validate like "hello"; for the bidi-demo server
\* "" fails to parse like "hello" and "{}" declares no type like the close
\* frame.
ClientFrames(v) == IF v = "bidi_demo" THEN BidiFrames ELSE Frames

\* Task positions: "new" (created, first step scheduled), "susp" (suspended
\* at its await), and the ways a task ends; "crashed" is the end by an
\* exception that propagates out of the task.
Running == {"new", "susp"}
Finished(p) == p \notin Running

VARIABLES
    variant,     \* which server this behaviour follows
    hpc,         \* the handler: "wait", "returned" ("none" in the sse world)
    tpc,         \* [Tasks -> position]
    wake,        \* [Tasks -> what the task is resumed with]
    rx,          \* the frame ws.receive_text() will return to the upstream task
    ready,       \* the event loop's FIFO of scheduled callbacks
    ncomplete,   \* done callbacks of the two tasks that have run
    waiterDone,  \* the waiter future of asyncio.wait / gather is resolved
    cancelReq,   \* [Tasks -> BOOLEAN] task.cancel() was called
    wsOpen,      \* the client's transport is still connected
    delivered,   \* frames handed to the server so far
    received,    \* frames ws.receive_text() returned, in order
    queue,       \* every LiveRequest put on the LiveRequestQueue, in order
    closeCalls,  \* invocations of close() on the queue
    rl,          \* run_live: "idle", "running", "completed", "raised", "cancelled", "closed"
    emitted,     \* events run_live produced
    out,         \* messages written to the WebSocket, in order
    spc,         \* [Streams -> position of the SSE stream]
    ssid,        \* [Streams -> session_id of the stream]
    sq,          \* [Streams -> initial message q of the stream]
    sseQueue,    \* [Streams -> every LiveRequest put on the stream's queue]
    sseOut,      \* [Streams -> SSE records the stream's generator yielded]
    sseEmitted,  \* [Streams -> events run_live produced for the stream]
    active_sse_sessions,  \* [SessionIds -> the stream registered, or NoStream]
    reply,       \* what the last POST /sse-send or /sse-close returned
    environ,     \* os.environ: [EnvKeys -> the value, or Unset]
    cpc,         \* [Connections -> position of the connection's handler]
    csid,        \* [Connections -> session_id of the connection]
    old_env,     \* [Connections -> what _set_credentials returned to it]
    store,       \* session_ids that have a record in SESSION_SERVICE
    creates,     \* [SessionIds -> invocations of create_session]
    csession,    \* [Connections -> its StreamingSession (and queue) was created]
    ctasks,      \* [Connections -> its two tasks were started]
    ccleanups,   \* [Connections -> runs of the connection's cleanup()]
    health,      \* the response to the last GET /healthz
    now,         \* the event loop's clock, in units of the producers' sleep
    timers,      \* the loop's scheduled timers: [task, when]
    runq,        \* the loop's FIFO of tasks that are ready to run
    lrq,         \* the messages in the LiveRequestQueue of the demonstration
    ppc,         \* [Producers -> "new", "sleeping", "ready", "done"]
    psent,       \* [Producers -> messages sent]
    kpc,         \* the consumer: "new", "waiting", "woken", "ready", "done", "timed_out"
    consumed,    \* the consumer's count of messages with content
    got,         \* the messages the consumer received, in order
    message_stats,  \* the counters of MessageTypeProcessor
    calls,       \* calls of process_message_safely that have returned or raised
    escaped,     \* an exception left the last call of process_message_safely
    dotenv,      \* the .env file of the working directory
    setup_result \* what setup_streaming_environment returned

wsVars == <<hpc, tpc, wake, rx, ready, ncomplete, waiterDone, cancelReq, wsOpen,
            delivered, received, queue, closeCalls, rl, emitted, out>>

sseVars == <<spc, ssid, sq, sseQueue, sseOut, sseEmitted, active_sse_sessions, reply>>

bootVars == <<environ, cpc, csid, old_env, store, creates, csession, ctasks,
              ccleanups, health>>

setupVars == <<dotenv, setup_result>>

demoVars == <<now, timers, runq, lrq, ppc, psent, kpc, consumed, got>>

statsVars == <<message_stats, calls, escaped>>

vars == <<variant, wsVars, sseVars, bootVars, setupVars, demoVars, statsVars>>

InSeq(x, s) == \E i \in 1..Len(s) : s[i] = x

Count(s, P(_)) == Cardinality({i \in 1..Len(s) : P(s[i])})

RECURSIVE SumOver(_, _)
SumOver(f, S) ==
    IF S = {} THEN 0
    ELSE LET x == CHOOSE y \in S : TRUE IN f[x] + SumOver(f, S \ {x})


\* ------------------------------------------------------- LiveRequestQueue
\* A LiveRequest: content and blob are <<>> (None) or a one-element sequence.
LiveRequest(content, blob, close) == [content |-> content, blob |-> blob, close |-> close]

\* LiveRequestQueue.send_content(Content(parts=[Part(text=text)]))
send_content(q, text) == Append(q, LiveRequest(<<text>>, <<>>, FALSE))

\* LiveRequestQueue.send(req)
send(q, req) == Append(q, req)

\* LiveRequestQueue.close(): the close signal is one more request on the queue
\* (LiveRequest(close=True)), as the chapter 2 script sends it by hand.
close(q) == Append(q, LiveRequest(<<>>, <<>>, TRUE))

\* types.Blob(mime_type=..., data=...); data is a sequence of byte values.
Blob(mime_type, data) == [mime_type |-> mime_type, data |-> data]

\* LiveRequestQueue.send_realtime(blob)
send_realtime(q, blob) == Append(q, LiveRequest(<<>>, <<blob>>, FALSE))

IsClose(req) == req.close
IsText(req) == req.content # <<>>
IsBlob(req) == req.blob # <<>>

\* The texts of the content entries of a queue, in order.
RECURSIVE Texts(_)
Texts(q) ==
    IF q = <<>> THEN <<>>
    ELSE IF IsText(Head(q)) THEN <<Head(q).content[1]>> \o Texts(Tail(q))
    ELSE Texts(Tail(q))

\* ------------------------------------------------------ frame classification
\* LiveRequest.model_validate_json(data): every field of LiveRequest is
\* optional, so a JSON object validates; anything else raises.
model_validate_json(data) ==
    IF data = CloseFrame THEN [ok |-> TRUE, req |-> LiveRequest(<<>>, <<>>, TRUE)]
    ELSE IF data = EmptyObjectFrame THEN [ok |-> TRUE, req |-> LiveRequest(<<>>, <<>>, FALSE)]
    ELSE [ok |-> FALSE, req |-> LiveRequest(<<>>, <<>>, FALSE)]

\* bidi_streaming.parse_message: (text, is_close); text <<>> is None.
parse_message_close_as_text(data) ==
    [text |-> <<data>>, is_close |-> FALSE]

parse_message(data) ==
    LET r == model_validate_json(data) IN
    IF r.ok
    THEN IF r.req.close THEN [text |-> <<>>, is_close |-> TRUE]
         ELSE [text |-> <<>>, is_close |-> FALSE]
    ELSE [text |-> <<data>>, is_close |-> FALSE]

\* Python truthiness of an Optional[str]: None and "" are false.
Truthy(text) == text # <<>> /\ text[1] # ""

\* The value json.loads returns for a JSON object: the keys it has and the
\* values of the keys upstream_task reads (data as its sequence of characters).
JsonObject(keys, type, mime_type, data, text) ==
    [ok |-> TRUE, obj |-> TRUE, keys |-> keys, type |-> type,
     mime_type |-> mime_type, data |-> data, text |-> text]

\* json.loads(data) in the bidi-demo upstream_task: a JSON object, another
\* JSON value (obj FALSE), or a JSONDecodeError (ok FALSE).
json_loads(data) ==
    CASE data = CloseFrame -> JsonObject({"close"}, "", "", <<>>, "")
      [] data = EmptyObjectFrame -> JsonObject({}, "", "", <<>>, "")
      [] data = AudioFrame ->
            JsonObject({"type", "data"}, "audio", "",
                       <<"A", "Q", "I", "D", "B", "A", "=", "=">>, "")
      [] data = AudioMimeFrame ->
            JsonObject({"type", "mime_type", "data"}, "audio", "audio/wav",
                       <<"/", "w", "=", "=">>, "")
      [] data = AudioNoDataFrame -> JsonObject({"type"}, "audio", "", <<>>, "")
      [] data = AudioBadDataFrame ->
            JsonObject({"type", "data"}, "audio", "", <<"A", "Q", "I">>, "")
      [] data = TextFrame -> JsonObject({"type", "text"}, "text", "", <<>>, "hi")
      [] data = TextNoTextFrame -> JsonObject({"type"}, "text", "", <<>>, "")
      [] data = ArrayFrame ->
            [ok |-> TRUE, obj |-> FALSE, keys |-> {}, type |-> "",
             mime_type |-> "", data |-> <<>>, text |-> ""]
      [] OTHER ->
            [ok |-> FALSE, obj |-> FALSE, keys |-> {}, type |-> "",
             mime_type |-> "", data |-> <<>>, text |-> ""]

\* The base64 alphabet; a character's 6-bit value is its position less one.
B64Alphabet ==
    <<"A", "B", "C", "D", "E", "F", "G", "H", "I", "J", "K", "L", "M", "N", "O", "P",
      "Q", "R", "S", "T", "U", "V", "W", "X", "Y", "Z", "a", "b", "c", "d", "e", "f",
      "g", "h", "i", "j", "k", "l", "m", "n", "o", "p", "q", "r", "s", "t", "u", "v",
      "w", "x", "y", "z", "0", "1", "2", "3", "4", "5", "6", "7", "8", "9", "+", "/">>

B64Index(c) == (CHOOSE i \in 1..Len(B64Alphabet) : B64Alphabet[i] = c) - 1

\* base64.b64decode(s): every four characters give three bytes, less one byte
\* for each "=" of padding; a length that is no multiple of four raises
\* binascii.Error (ok FALSE).
b64decode(s) ==
    LET digits == SelectSeq(s, LAMBDA c : c # "=")
        pads == Len(s) - Len(digits)
        val(i) == IF i <= Len(digits) THEN B64Index(digits[i]) ELSE 0
        word(g) == val(4 * g - 3) * 262144 + val(4 * g - 2) * 4096
                   + val(4 * g - 1) * 64 + val(4 * g)
        byte(k) == LET w == word((k + 2) \div 3)
                       r == (k - 1) % 3
                   IN CASE r = 0 -> w \div 65536
                        [] r = 1 -> (w \div 256) % 256
                        [] OTHER -> w % 256
        n == 3 * (Len(s) \div 4)
    IN IF Len(s) % 4 # 0 \/ pads > 2
       THEN [ok |-> FALSE, bytes |-> <<>>]
       ELSE [ok |-> TRUE, bytes |-> [k \in 1..(n - pads) |-> byte(k)]]

\* message.get("mime_type", "audio/pcm;rate=16000")
blob_mime_type_ignored(m) == "audio/pcm;rate=16000"

blob_mime_type(m) ==
    IF "mime_type" \in m.keys THEN m.mime_type ELSE "audio/pcm;rate=16000"

\* What one inbound frame makes the upstream loop do: the requests it puts on
\* the queue, whether the loop is left (break), and whether the frame makes
\* the task raise an exception none of its except clauses catches (exc).
consume_demo_app(data) ==
    LET p == parse_message(data) IN
    IF p.is_close THEN [puts |-> <<>>, brk |-> TRUE, exc |-> FALSE]
    ELSE IF Truthy(p.text)
         THEN [puts |-> send_content(<<>>, p.text[1]), brk |-> FALSE, exc |-> FALSE]
    ELSE [puts |-> <<>>, brk |-> FALSE, exc |-> FALSE]

consume_streaming_app(data) ==
    LET r == model_validate_json(data) IN
    IF r.ok THEN [puts |-> send(<<>>, r.req), brk |-> r.req.close, exc |-> FALSE]
    ELSE [puts |-> send_content(<<>>, data), brk |-> FALSE, exc |-> FALSE]

\* The bidi-demo loop body.  Only json.JSONDecodeError is caught around the
\* parse: message.get on a value that is not a dict (AttributeError),
\* message["data"] / message["text"] on a missing key (KeyError) and
\* b64decode on bad input (binascii.Error) leave the task.
upstream_bidi_demo(data) ==
    LET m == json_loads(data)
        Raised == [puts |-> <<>>, brk |-> FALSE, exc |-> TRUE]
        get_type == IF "type" \in m.keys THEN m.type ELSE ""
    IN
    IF ~m.ok THEN [puts |-> send_content(<<>>, data), brk |-> FALSE, exc |-> FALSE]
    ELSE IF ~m.obj THEN Raised
    ELSE IF get_type = "audio" THEN
        IF "data" \notin m.keys THEN Raised
        ELSE LET audio_data == b64decode(m.data) IN
             IF ~audio_data.ok THEN Raised
             ELSE [puts |-> send_realtime(<<>>, Blob(blob_mime_type(m), audio_data.bytes)),
                   brk |-> FALSE, exc |-> FALSE]
    ELSE IF get_type = "text" THEN
        IF "text" \notin m.keys THEN Raised
        ELSE [puts |-> send_content(<<>>, m.text), brk |-> FALSE, exc |-> FALSE]
    ELSE [puts |-> <<>>, brk |-> FALSE, exc |-> FALSE]

OnFrame(v, data) ==
    CASE v = "demo_app" -> consume_demo_app(data)
      [] v = "streaming_app" -> consume_streaming_app(data)
      [] OTHER -> upstream_bidi_demo(data)

\* The finally clause of consume_messages: how many times it calls close() on
\* the queue when the task leaves in way `how`.  The bidi-demo upstream_task
\* has no such clause.
UpstreamFinallySkipsCancel(v, how) ==
    IF v \in WaitVariants /\ how # "cancelled" THEN 1 ELSE 0

UpstreamFinally(v, how) == IF v \in WaitVariants THEN 1 ELSE 0

\* The queue after the requests of one step are put on it: the SDK's queue is
\* an asyncio.Queue, put_nowait appends.
EnqueueFront(q, puts) == puts \o q

Enqueue(q, puts) == q \o puts

RECURSIVE CloseTimes(_, _)
CloseTimes(q, n) == IF n = 0 THEN q ELSE CloseTimes(close(q), n - 1)

\* asyncio.wait(..., return_when=FIRST_COMPLETED) resolves its waiter at the
\* first done callback; asyncio.gather at the last.
ReturnWhenAllCompleted(v, n) == n >= Cardinality(Tasks)

ReturnWhen(v, n) == IF v \in WaitVariants THEN n >= 1 ELSE n >= Cardinality(Tasks)


\* ------------------------------------------------------------ event loop
\* asyncio.create_task / asyncio.gather schedule the first step of each task
\* in the order the code names them.
InitialReadyUpstreamOnly(v) == IF v \in WsVariants THEN <<"upstream">> ELSE <<>>

InitialReady(v) ==
    CASE v \in WaitVariants -> <<"downstream", "upstream">>
      [] v = "bidi_demo" -> <<"upstream", "downstream">>
      [] OTHER -> <<>>

\* A finished task schedules its done callback while the handler still waits
\* (the handler removes the callbacks when it resumes).
NoDoneCallbacks == <<>>

DoneCallbacks == IF hpc = "wait" THEN <<"on_completion">> ELSE <<>>

InitWs(v) ==
    /\ hpc = IF v \in WsVariants THEN "wait" ELSE "none"
    /\ tpc = [t \in Tasks |-> "new"]
    /\ wake = [t \in Tasks |-> IF v \in WsVariants THEN "start" ELSE "none"]
    /\ rx = ""
    /\ ready = InitialReady(v)
    /\ ncomplete = 0
    /\ waiterDone = FALSE
    /\ cancelReq = [t \in Tasks |-> FALSE]
    /\ wsOpen = TRUE
    /\ delivered = 0
    /\ received = <<>>
    /\ queue = <<>>
    /\ closeCalls = 0
    /\ rl = "idle"
    /\ emitted = 0
    /\ out = <<>>

\* ------------------------------------------------------------ environment
\* The client sends a text frame and the upstream task's ws.receive_text()
\* future resolves with it.
ClientFrame ==
    /\ variant \in WsVariants
    /\ wsOpen
    /\ delivered < MaxFrames
    /\ tpc["upstream"] = "susp" /\ wake["upstream"] = "none"
    /\ \E f \in ClientFrames(variant) : rx' = f
    /\ wake' = [wake EXCEPT !["upstream"] = "frame"]
    /\ ready' = Append(ready, "upstream")
    /\ delivered' = delivered + 1
    /\ UNCHANGED <<variant, bootVars, setupVars, demoVars, statsVars, sseVars, hpc, tpc, ncomplete, waiterDone, cancelReq, wsOpen,
                   received, queue, closeCalls, rl, emitted, out>>

\* The client's transport goes away: from now on every ws.send_text fails.
ClientDisconnect ==
    /\ variant \in WsVariants
    /\ wsOpen
    /\ wsOpen' = FALSE
    /\ UNCHANGED <<variant, bootVars, setupVars, demoVars, statsVars, sseVars, hpc, tpc, wake, rx, ready, ncomplete, waiterDone,
                   cancelReq, delivered, received, queue, closeCalls, rl, emitted, out>>

\* The disconnect reaches the pending ws.receive_text() as WebSocketDisconnect.
DeliverDisconnect ==
    /\ variant \in WsVariants
    /\ ~wsOpen
    /\ tpc["upstream"] = "susp" /\ wake["upstream"] = "none"
    /\ wake' = [wake EXCEPT !["upstream"] = "disconnect"]
    /\ ready' = Append(ready, "upstream")
    /\ UNCHANGED <<variant, bootVars, setupVars, demoVars, statsVars, sseVars, hpc, tpc, rx, ncomplete, waiterDone, cancelReq, wsOpen,
                   delivered, received, queue, closeCalls, rl, emitted, out>>

\* run_live (the SDK's event source) resolves the future the downstream task
\* awaits: with the next event, with the end of the sequence, or with an error.
RunLiveWake(how) ==
    /\ variant \in WsVariants
    /\ rl = "running"
    /\ tpc["downstream"] = "susp" /\ wake["downstream"] = "none"
    /\ wake' = [wake EXCEPT !["downstream"] = how]
    /\ ready' = Append(ready, "downstream")
    /\ UNCHANGED <<variant, bootVars, setupVars, demoVars, statsVars, sseVars, hpc, tpc, rx, ncomplete, waiterDone, cancelReq, wsOpen,
                   delivered, received, queue, closeCalls, rl, out>>

RunLiveYield ==
    /\ emitted < MaxEvents
    /\ emitted' = emitted + 1
    /\ RunLiveWake("event")

RunLiveComplete == RunLiveWake("complete") /\ UNCHANGED emitted

RunLiveRaise == RunLiveWake("raise") /\ UNCHANGED emitted


\* ------------------------------------------------------- downstream task
\* event.model_dump_json(...) of the n-th event run_live yields; the mutant
\* serializes every event as the first one.
EventMsgFirst(n) == [kind |-> "event", n |-> 1]

EventMsg(n) == [kind |-> "event", n |-> n]
ErrorMsg == [kind |-> "error", n |-> 0]

\* ws.send_text on a connected transport writes the message; on a
\* disconnected one it raises.  _safe_send / safe_ws_send swallow the failure.
safe_send_twice(o, open, msg) == IF open THEN Append(Append(o, msg), msg) ELSE o

safe_send(o, open, msg) == IF open THEN Append(o, msg) ELSE o

\* _safe_send / safe_ws_send catch every Exception of ws.send_text, so the
\* call itself never raises; a bare ws.send_text would raise on a
\* disconnected transport.
send_text_raises(open) == ~open

safe_send_raises(open) == FALSE

\* Whether the except clause of the downstream task lets an exception out of
\* the task: its only statement that can fail is the send of the error.
DownstreamExceptRaises(v, open) == v \in WaitVariants /\ safe_send_raises(open)

\* The except clause of the downstream task: the demo servers forward the
\* exception as {"error": ...}; the bidi-demo downstream_task only logs it.
DownstreamExcept(v, o, open) ==
    IF v \in WaitVariants THEN safe_send(o, open, ErrorMsg) ELSE o

\* One step of forward_events / downstream_task, from its resumption to its
\* next suspension or its end.
DownstreamStep ==
    /\ variant \in WsVariants
    /\ ready # <<>> /\ Head(ready) = "downstream"
    /\ LET w == wake["downstream"]
           started == tpc["downstream"] = "susp"
           \* where the task is after this step
           next == CASE w = "start" -> "susp"
                     [] w = "event" ->
                            IF wsOpen THEN "susp"
                            ELSE IF DownstreamExceptRaises(variant, wsOpen) THEN "crashed"
                            ELSE "send_failed"
                     [] w = "complete" -> "completed"
                     [] w = "raise" ->
                            IF DownstreamExceptRaises(variant, wsOpen) THEN "crashed"
                            ELSE "raised"
                     [] OTHER -> "cancelled"
       IN
       /\ tpc' = [tpc EXCEPT !["downstream"] = next]
       /\ wake' = [wake EXCEPT !["downstream"] = "none"]
       /\ ready' = Tail(ready) \o (IF Finished(next) THEN DoneCallbacks ELSE <<>>)
       /\ rl' = CASE w = "start" -> "running"
                  [] w = "event" -> IF wsOpen THEN rl ELSE "closed"
                  [] w = "complete" -> "completed"
                  [] w = "raise" -> "raised"
                  [] OTHER -> IF started THEN "cancelled" ELSE rl
       /\ out' = CASE w = "event" ->
                        IF wsOpen THEN Append(out, EventMsg(emitted))
                        ELSE DownstreamExcept(variant, out, wsOpen)
                   [] w = "raise" -> DownstreamExcept(variant, out, wsOpen)
                   [] OTHER -> out
    /\ UNCHANGED <<variant, bootVars, setupVars, demoVars, statsVars, sseVars, hpc, rx, ncomplete, waiterDone, cancelReq, wsOpen,
                   delivered, received, queue, closeCalls, emitted>>

\* --------------------------------------------------------- upstream task
\* One step of consume_messages / upstream_task.  A task cancelled before its
\* first step never enters its try block, so its finally clause does not run.
UpstreamStep ==
    /\ variant \in WsVariants
    /\ ready # <<>> /\ Head(ready) = "upstream"
    /\ LET w == wake["upstream"]
           started == tpc["upstream"] = "susp"
           r == OnFrame(variant, rx)
           next == CASE w = "start" -> "susp"
                     [] w = "frame" -> IF r.exc THEN "crashed"
                                       ELSE IF r.brk THEN "closed_by_frame" ELSE "susp"
                     [] w = "disconnect" -> "disconnected"
                     [] OTHER -> "cancelled"
           puts == IF w = "frame" THEN r.puts ELSE <<>>
           nclose == IF Finished(next) /\ started THEN UpstreamFinally(variant, next) ELSE 0
       IN
       /\ tpc' = [tpc EXCEPT !["upstream"] = next]
       /\ wake' = [wake EXCEPT !["upstream"] = "none"]
       /\ ready' = Tail(ready) \o (IF Finished(next) THEN DoneCallbacks ELSE <<>>)
       /\ received' = IF w = "frame" THEN Append(received, rx) ELSE received
       /\ rx' = ""
       /\ queue' = CloseTimes(Enqueue(queue, puts), nclose)
       /\ closeCalls' = closeCalls + nclose
    /\ UNCHANGED <<variant, bootVars, setupVars, demoVars, statsVars, sseVars, hpc, ncomplete, waiterDone, cancelReq, wsOpen,
                   delivered, rl, emitted, out>>

\* ---------------------------------------------------------------- handler
\* The done callback of a task: _on_completion of asyncio.wait, _done_callback
\* of asyncio.gather.
OnCompletion ==
    /\ variant \in WsVariants
    /\ ready # <<>> /\ Head(ready) = "on_completion"
    /\ ncomplete' = ncomplete + 1
    /\ LET fire == ~waiterDone /\ ReturnWhen(variant, ncomplete + 1) IN
       /\ waiterDone' = (waiterDone \/ fire)
       /\ ready' = Tail(ready) \o (IF fire THEN <<"handler">> ELSE <<>>)
    /\ UNCHANGED <<variant, bootVars, setupVars, demoVars, statsVars, sseVars, hpc, tpc, wake, rx, cancelReq, wsOpen, delivered,
                   received, queue, closeCalls, rl, emitted, out>>

\* The tasks the handler finds pending when asyncio.wait returns.
Pending == {t \in Tasks : ~Finished(tpc[t])}

\* The handler resumes from asyncio.wait: it cancels the pending task and
\* returns.  task.cancel() makes the task's next step raise CancelledError at
\* its suspension point, also when a wake-up was already scheduled.
HandlerResumeWait ==
    /\ variant \in WaitVariants
    /\ ready # <<>> /\ Head(ready) = "handler"
    /\ hpc' = "returned"
    /\ cancelReq' = [t \in Tasks |-> cancelReq[t] \/ t \in Pending]
    /\ wake' = [t \in Tasks |-> IF t \in Pending THEN "cancel" ELSE wake[t]]
    /\ ready' = Tail(ready) \o
                SelectSeq(<<"downstream", "upstream">>,
                          LAMBDA t : t \in Pending /\ ~InSeq(t, Tail(ready)))
    /\ UNCHANGED <<variant, bootVars, setupVars, demoVars, statsVars, sseVars, tpc, rx, ncomplete, waiterDone, wsOpen, delivered,
                   received, queue, closeCalls, rl, emitted, out>>

\* The bidi-demo handler resumes from asyncio.gather and closes the queue in
\* its finally clause.
HandlerResumeGather ==
    /\ variant = "bidi_demo"
    /\ ready # <<>> /\ Head(ready) = "handler"
    /\ hpc' = "returned"
    /\ queue' = close(queue)
    /\ closeCalls' = closeCalls + 1
    /\ ready' = Tail(ready)
    /\ UNCHANGED <<variant, bootVars, setupVars, demoVars, statsVars, sseVars, tpc, wake, rx, ncomplete, waiterDone, cancelReq, wsOpen,
                   delivered, received, rl, emitted, out>>

\* ------------------------------------------------------------ SSE streams
\* Stream positions: "absent" (no such request yet), "registered" (GET /sse
\* returned its StreamingResponse, event_generator not started), "next"
\* (event_generator awaits the next event of run_live), "error_yielded"
\* (suspended at the yield of its except clause), "abandoned" (the response
\* ended before event_generator was started), and the ways a started
\* generator ends, each after cleanup(): "completed" (run_live completed),
\* "failed" (run_live raised), "disconnected" (the client went away).
CleanedUp == {"completed", "failed", "disconnected"}
InitSse ==
    /\ spc = [st \in Streams |-> "absent"]
    /\ ssid = [st \in Streams |-> DEFAULT_SESSION_ID]
    /\ sq = [st \in Streams |-> ""]
    /\ sseQueue = [st \in Streams |-> <<>>]
    /\ sseOut = [st \in Streams |-> <<>>]
    /\ sseEmitted = [st \in Streams |-> 0]
    /\ active_sse_sessions = [sid \in SessionIds |-> NoStream]
    /\ reply = "none"

\* StreamingSession.send_text / StreamingSession.close on a stream's queue.
send_text_twice(q, text) == send_content(send_content(q, text), text)

send_text(q, text) == send_content(q, text)

session_close(q) == close(q)

\* GET /sse: create the StreamingSession (in src/demo/streaming_app.py the
\* LiveRequestQueue) and, in src/demo/app/main.py, store it under its
\* session_id, replacing whatever was stored there.  The first request uses the default
\* session_id (the two ids are interchangeable); the second uses either.
sse_endpoint(st, sid, q) ==
    /\ variant \in SseVariants
    /\ spc[st] = "absent"
    /\ st = "first" \/ spc["first"] # "absent"
    /\ st = "first" => sid = DEFAULT_SESSION_ID
    /\ spc' = [spc EXCEPT ![st] = "registered"]
    /\ ssid' = [ssid EXCEPT ![st] = sid]
    /\ sq' = [sq EXCEPT ![st] = q]
    /\ active_sse_sessions' = IF variant = "sse"
                               THEN [active_sse_sessions EXCEPT ![sid] = st]
                               ELSE active_sse_sessions
    /\ UNCHANGED <<variant, bootVars, setupVars, demoVars, statsVars, wsVars, sseQueue, sseOut, sseEmitted, reply>>

\* The registry after cleanup() of a stream with session_id sid: the entry
\* under sid is deleted, whichever stream it refers to.
RegistryKept(reg, sid) == reg

RegistryAfterCleanup(reg, sid) == [reg EXCEPT ![sid] = NoStream]

\* The finally clause of the generator.  In src/demo/app/main.py it calls
\* cleanup(): close the queue and drop the registry entry.  In
\* src/demo/streaming_app.py it only restores the environment.
Cleanup(st) ==
    IF variant = "sse"
    THEN /\ sseQueue' = [sseQueue EXCEPT ![st] = session_close(sseQueue[st])]
         /\ active_sse_sessions' = RegistryAfterCleanup(active_sse_sessions, ssid[st])
    ELSE UNCHANGED <<sseQueue, active_sse_sessions>>

\* The response starts iterating event_generator: stream_events_as_json sends
\* the initial message, when there is one, and awaits run_live (q is not
\* read again).
GeneratorStart(st) ==
    /\ variant \in SseVariants
    /\ spc[st] = "registered"
    /\ spc' = [spc EXCEPT ![st] = "next"]
    /\ sseQueue' = [sseQueue EXCEPT ![st] =
                      IF sq[st] # "" THEN send_text(sseQueue[st], sq[st]) ELSE sseQueue[st]]
    /\ sq' = [sq EXCEPT ![st] = ""]
    /\ UNCHANGED <<variant, bootVars, setupVars, demoVars, statsVars, wsVars, ssid, sseOut, sseEmitted, active_sse_sessions, reply>>

\* run_live yields an event and event_generator yields it as an SSE record.
GeneratorYield(st) ==
    /\ variant \in SseVariants
    /\ spc[st] = "next"
    /\ SumOver(sseEmitted, Streams) < MaxSseEvents
    /\ sseEmitted' = [sseEmitted EXCEPT ![st] = sseEmitted[st] + 1]
    /\ sseOut' = [sseOut EXCEPT ![st] = Append(sseOut[st], EventMsg(sseEmitted[st] + 1))]
    /\ UNCHANGED <<variant, bootVars, setupVars, demoVars, statsVars, wsVars, spc, ssid, sq, sseQueue, active_sse_sessions, reply>>

\* run_live completes: the generator leaves its loop and runs cleanup().
GeneratorCompleteNoCleanup(st) ==
    /\ variant \in SseVariants
    /\ spc[st] = "next"
    /\ spc' = [spc EXCEPT ![st] = "completed"]
    /\ UNCHANGED <<variant, bootVars, setupVars, demoVars, statsVars, wsVars, ssid, sq, sseQueue, sseOut, sseEmitted,
                   active_sse_sessions, reply>>

GeneratorComplete(st) ==
    /\ variant \in SseVariants
    /\ spc[st] = "next"
    /\ spc' = [spc EXCEPT ![st] = "completed"]
    /\ Cleanup(st)
    /\ UNCHANGED <<variant, bootVars, setupVars, demoVars, statsVars, wsVars, ssid, sq, sseOut, sseEmitted, reply>>

\* run_live raises: the except clause yields one {"error": ...} record.
GeneratorRaise(st) ==
    /\ variant \in SseVariants
    /\ spc[st] = "next"
    /\ spc' = [spc EXCEPT ![st] = "error_yielded"]
    /\ sseOut' = [sseOut EXCEPT ![st] = Append(sseOut[st], ErrorMsg)]
    /\ UNCHANGED <<variant, bootVars, setupVars, demoVars, statsVars, wsVars, ssid, sq, sseQueue, sseEmitted, active_sse_sessions, reply>>

\* The generator is resumed after the error record (or closed there): its
\* finally clause runs cleanup().
GeneratorFinish(st) ==
    /\ variant \in SseVariants
    /\ spc[st] = "error_yielded"
    /\ spc' = [spc EXCEPT ![st] = "failed"]
    /\ Cleanup(st)
    /\ UNCHANGED <<variant, bootVars, setupVars, demoVars, statsVars, wsVars, ssid, sq, sseOut, sseEmitted, reply>>

\* The client disconnects while the generator awaits run_live: the await
\* raises CancelledError, which no except clause catches, and finally runs.
\* A response that ends before its generator started never runs it.
SseDisconnect(st) ==
    /\ variant \in SseVariants
    /\ spc[st] \in {"registered", "next"}
    /\ IF spc[st] = "next"
       THEN /\ spc' = [spc EXCEPT ![st] = "disconnected"]
            /\ Cleanup(st)
       ELSE /\ spc' = [spc EXCEPT ![st] = "abandoned"]
            /\ UNCHANGED <<sseQueue, active_sse_sessions>>
    /\ UNCHANGED <<variant, bootVars, setupVars, demoVars, statsVars, wsVars, ssid, sq, sseOut, sseEmitted, reply>>

\* Requests on the queues of all streams (the POST handlers are explored
\* while this stays below MaxQueue).
Queued == SumOver([st \in Streams |-> Len(sseQueue[st])], Streams)

\* active_sse_sessions.get(session_id): the entry, or None (NoStream).
registry_get_or_first(reg, sid) == IF reg[sid] # NoStream THEN reg[sid] ELSE "first"

registry_get(reg, sid) == reg[sid]

\* The "message" field of the JSON body of POST /sse-send, which may be
\* missing, and data.get("message", ""), which reads it.
NoField == "(no field)"
MessageFields == {NoField} \cup Messages
data_get(field, default) == IF field = NoField THEN default ELSE field

\* POST /sse-send
sse_send_message(sid, message) ==
    /\ variant = "sse"
    /\ LET session == registry_get(active_sse_sessions, sid) IN
       IF message = "" THEN
            /\ reply' = "Message is required"
            /\ UNCHANGED sseQueue
       ELSE IF session = NoStream THEN
            /\ reply' = "Session not found or not active"
            /\ UNCHANGED sseQueue
       ELSE /\ Queued < MaxQueue
            /\ sseQueue' = [sseQueue EXCEPT ![session] = send_text(sseQueue[session], message)]
            /\ reply' = "sent"
    /\ UNCHANGED <<variant, bootVars, setupVars, demoVars, statsVars, wsVars, spc, ssid, sq, sseOut, sseEmitted, active_sse_sessions>>

\* POST /sse-close
sse_close_session(sid) ==
    /\ variant = "sse"
    /\ LET session == registry_get(active_sse_sessions, sid) IN
       IF session = NoStream THEN
            /\ reply' = "Session not found or not active"
            /\ UNCHANGED sseQueue
       ELSE /\ Queued < MaxQueue
            /\ sseQueue' = [sseQueue EXCEPT ![session] = session_close(sseQueue[session])]
            /\ reply' = "close signal sent"
    /\ UNCHANGED <<variant, bootVars, setupVars, demoVars, statsVars, wsVars, spc, ssid, sq, sseOut, sseEmitted, active_sse_sessions>>

\* ------------------------------------------- bootstrap and credentials
\* The start and the end of the connections of src/demo/app/main.py: the
\* credentials a request puts into os.environ, the session record it ensures
\* in SESSION_SERVICE, and what it has built when it ends.  What a session
\* does while it runs is left to the worlds above; here it only lasts for
\* some time.  Two connections, each a WebSocket or an SSE request.
Connections == Streams

EnvKeys == {"GOOGLE_GENAI_USE_VERTEXAI", "GOOGLE_API_KEY",
            "GOOGLE_CLOUD_PROJECT", "GOOGLE_CLOUD_LOCATION"}

\* Python's None (a query parameter that was not given, a variable that is
\* not in os.environ) and a key that is not in the old_env dictionary.
None == "(None)"
Unset == None
NotSaved == "(not saved)"

\* The environment the server process was started with.
OriginalEnv == [k \in EnvKeys |->
                   CASE k = "GOOGLE_API_KEY" -> "key-0"
                     [] k = "GOOGLE_GENAI_USE_VERTEXAI" -> "FALSE"
                     [] OTHER -> Unset]

\* The credential query parameters of a request.
CredentialParams == [use_vertexai : {None, "true", "false"},
                     api_key : {None, "key-1", "key-2"},
                     gcp_project : {None, "proj-1"},
                     gcp_location : {None, "us-central1"}]

upper(s) == CASE s = "true" -> "TRUE" [] s = "false" -> "FALSE" [] OTHER -> s

\* Python truthiness of an Optional[str] from a parameter or from os.getenv:
\* `if value:` holds unless value is None or "".
GivenUnlessNone(v) == v # None

Given(v) == v \notin {None, ""}

NothingSaved == [k \in EnvKeys |-> NotSaved]

\* old_env[key] = os.environ.get(key); os.environ[key] = value
SaveAndSet(r, key, value) ==
    [environ |-> [r.environ EXCEPT ![key] = value],
     old_env |-> [r.old_env EXCEPT ![key] = r.environ[key]]]

\* _set_credentials: the environment it leaves and the old_env it returns.
set_credentials(env, cred) ==
    LET r0 == [environ |-> env, old_env |-> NothingSaved]
        r1 == IF cred.use_vertexai # None
              THEN SaveAndSet(r0, "GOOGLE_GENAI_USE_VERTEXAI", upper(cred.use_vertexai))
              ELSE r0
        r2 == IF cred.use_vertexai = "true" /\ Given(cred.gcp_project)
              THEN SaveAndSet(r1, "GOOGLE_CLOUD_PROJECT", cred.gcp_project)
              ELSE r1
        r3 == IF cred.use_vertexai = "true" /\ Given(cred.gcp_location)
              THEN SaveAndSet(r2, "GOOGLE_CLOUD_LOCATION", cred.gcp_location)
              ELSE r2
    IN  IF cred.use_vertexai # "true" /\ Given(cred.api_key)
        THEN SaveAndSet(r3, "GOOGLE_API_KEY", cred.api_key)
        ELSE r3

\* _restore_credentials: every saved key gets its saved value back, a saved
\* None removes the key.
restore_credentials(env, old) ==
    [k \in EnvKeys |-> IF old[k] = NotSaved THEN env[k] ELSE old[k]]

\* SESSION_SERVICE is an InMemorySessionService: a dictionary of records
\* keyed by (app_name, user_id, session_id); the user is the default one, so
\* a record is named by its session_id.  Its coroutines return without
\* suspending, so the handler that awaits get_session and create_session is
\* not descheduled between the two.
get_session_never_finds(st, sid) == None

get_session(st, sid) == IF sid \in st THEN sid ELSE None

\* get_or_create_session: the store it leaves and the invocations of
\* create_session so far.
get_or_create_session(st, n, sid) ==
    IF get_session(st, sid) = None
    THEN [store |-> st \cup {sid}, creates |-> [n EXCEPT ![sid] = @ + 1]]
    ELSE [store |-> st, creates |-> n]

\* The statements after `await get_or_create_session(...)` are reached only
\* when it returned.
ReachedAlways(ok) == TRUE

ReachedAfterBootstrap(ok) == ok

\* No GET /healthz was answered yet.
NoResponse == [status |-> 0, body |-> ""]

InitConnections ==
    /\ cpc = [c \in Connections |-> "idle"]
    /\ csid = [c \in Connections |-> DEFAULT_SESSION_ID]
    /\ old_env = [c \in Connections |-> NothingSaved]
    /\ store = {}
    /\ creates = [sid \in SessionIds |-> 0]
    /\ csession = [c \in Connections |-> FALSE]
    /\ ctasks = [c \in Connections |-> FALSE]
    /\ ccleanups = [c \in Connections |-> 0]
    /\ health = NoResponse

InitBoot ==
    /\ environ = OriginalEnv
    /\ InitConnections

\* websocket_endpoint from ws.accept() to `await asyncio.wait(...)`, or to
\* the exception of a session store that fails (ok = FALSE), which leaves
\* the handler through its finally clause.
websocket_endpoint(c, cred, sid, ok) ==
    LET set == set_credentials(environ, cred)
        boot == get_or_create_session(store, creates, sid)
    IN  /\ variant = "bootstrap"
        /\ cpc[c] = "idle"
        /\ csid' = [csid EXCEPT ![c] = sid]
        /\ old_env' = [old_env EXCEPT ![c] = set.old_env]
        /\ csession' = [csession EXCEPT ![c] = ReachedAfterBootstrap(ok)]
        /\ ctasks' = [ctasks EXCEPT ![c] = ReachedAfterBootstrap(ok)]
        /\ IF ok
           THEN /\ cpc' = [cpc EXCEPT ![c] = "ws_running"]
                /\ environ' = set.environ
                /\ store' = boot.store
                /\ creates' = boot.creates
           ELSE /\ cpc' = [cpc EXCEPT ![c] = "ws_failed"]
                /\ environ' = restore_credentials(set.environ, set.old_env)
                /\ UNCHANGED <<store, creates>>
        /\ UNCHANGED <<variant, wsVars, sseVars, setupVars, demoVars, statsVars, ccleanups, health>>

\* asyncio.wait returned, the pending task is cancelled and the finally
\* clause restores the credentials.
websocket_endpoint_finally(c) ==
    /\ variant = "bootstrap"
    /\ cpc[c] = "ws_running"
    /\ cpc' = [cpc EXCEPT ![c] = "ws_returned"]
    /\ environ' = restore_credentials(environ, old_env[c])
    /\ UNCHANGED <<variant, wsVars, sseVars, setupVars, demoVars, statsVars,
                   csid, old_env, store, creates, csession, ctasks, ccleanups, health>>

\* sse_endpoint up to `return StreamingResponse(...)`, or to the exception
\* of a session store that fails: no try statement surrounds the body.
sse_endpoint_bootstrap(c, cred, sid, ok) ==
    LET set == set_credentials(environ, cred)
        boot == get_or_create_session(store, creates, sid)
    IN  /\ variant = "bootstrap"
        /\ cpc[c] = "idle"
        /\ csid' = [csid EXCEPT ![c] = sid]
        /\ old_env' = [old_env EXCEPT ![c] = set.old_env]
        /\ environ' = set.environ
        /\ csession' = [csession EXCEPT ![c] = ReachedAfterBootstrap(ok)]
        /\ IF ok
           THEN /\ cpc' = [cpc EXCEPT ![c] = "sse_registered"]
                /\ store' = boot.store
                /\ creates' = boot.creates
                /\ active_sse_sessions' = [active_sse_sessions EXCEPT ![sid] = c]
           ELSE /\ cpc' = [cpc EXCEPT ![c] = "sse_failed"]
                /\ active_sse_sessions' =
                       IF ReachedAfterBootstrap(ok)
                       THEN [active_sse_sessions EXCEPT ![sid] = c]
                       ELSE active_sse_sessions
                /\ UNCHANGED <<store, creates>>
        /\ UNCHANGED <<variant, wsVars, setupVars, demoVars, statsVars, ctasks, ccleanups, health,
                       spc, ssid, sq, sseQueue, sseOut, sseEmitted, reply>>

\* The response starts to iterate event_generator.
event_generator_started(c) ==
    /\ variant = "bootstrap"
    /\ cpc[c] = "sse_registered"
    /\ cpc' = [cpc EXCEPT ![c] = "sse_streaming"]
    /\ UNCHANGED <<variant, wsVars, sseVars, setupVars, demoVars, statsVars,
                   environ, csid, old_env, store, creates, csession, ctasks,
                   ccleanups, health>>

\* The response ends before it iterated event_generator: a generator that was
\* never started runs no finally clause.
response_abandoned(c) ==
    /\ variant = "bootstrap"
    /\ cpc[c] = "sse_registered"
    /\ cpc' = [cpc EXCEPT ![c] = "sse_abandoned"]
    /\ UNCHANGED <<variant, wsVars, sseVars, setupVars, demoVars, statsVars,
                   environ, csid, old_env, store, creates, csession, ctasks,
                   ccleanups, health>>

\* The ways the stream of a started event_generator ends.
SseEnded == {"sse_completed", "sse_errored", "sse_disconnected"}

\* The finally clause of a started event_generator: cleanup() closes the
\* session's queue, deletes the entry under the session_id and restores the
\* credentials.
event_generator_finally(c) ==
    /\ ccleanups' = [ccleanups EXCEPT ![c] = @ + 1]
    /\ active_sse_sessions' = RegistryAfterCleanup(active_sse_sessions, csid[c])
    /\ environ' = restore_credentials(environ, old_env[c])

\* run_live completes: the async for ends and the finally clause runs.
stream_completes(c) ==
    /\ variant = "bootstrap"
    /\ cpc[c] = "sse_streaming"
    /\ cpc' = [cpc EXCEPT ![c] = "sse_completed"]
    /\ event_generator_finally(c)
    /\ UNCHANGED <<variant, wsVars, setupVars, demoVars, statsVars, csid, old_env, store, creates,
                   csession, ctasks, health,
                   spc, ssid, sq, sseQueue, sseOut, sseEmitted, reply>>

\* run_live raises: the except clause yields the error record and the
\* generator is suspended there, inside the try statement.
stream_raises(c) ==
    /\ variant = "bootstrap"
    /\ cpc[c] = "sse_streaming"
    /\ cpc' = [cpc EXCEPT ![c] = "sse_error_yielded"]
    /\ UNCHANGED <<variant, wsVars, sseVars, setupVars, demoVars, statsVars,
                   environ, csid, old_env, store, creates, csession, ctasks,
                   ccleanups, health>>

\* The response asks for the record after the error record: the except
\* clause ends and the finally clause runs.
stream_resumed(c) ==
    /\ variant = "bootstrap"
    /\ cpc[c] = "sse_error_yielded"
    /\ cpc' = [cpc EXCEPT ![c] = "sse_errored"]
    /\ event_generator_finally(c)
    /\ UNCHANGED <<variant, wsVars, setupVars, demoVars, statsVars, csid, old_env, store, creates,
                   csession, ctasks, health,
                   spc, ssid, sq, sseQueue, sseOut, sseEmitted, reply>>

\* Closing a started generator raises the exception where the generator is
\* suspended, at the await of run_live or at the yield of the except clause;
\* both are inside the try statement, so the finally clause runs.
FinallyOnCloseNever(pos) == FALSE

FinallyOnClose(pos) == pos \in {"sse_streaming", "sse_error_yielded"}

\* The client disconnects and the response is cancelled: the generator is
\* closed.
stream_disconnects(c) ==
    /\ variant = "bootstrap"
    /\ cpc[c] \in {"sse_streaming", "sse_error_yielded"}
    /\ cpc' = [cpc EXCEPT ![c] = "sse_disconnected"]
    /\ IF FinallyOnClose(cpc[c])
       THEN event_generator_finally(c)
       ELSE UNCHANGED <<ccleanups, active_sse_sessions, environ>>
    /\ UNCHANGED <<variant, wsVars, setupVars, demoVars, statsVars, csid, old_env, store, creates,
                   csession, ctasks, health,
                   spc, ssid, sq, sseQueue, sseOut, sseEmitted, reply>>

\* GET /healthz: the handler reads nothing and returns "ok"; the framework
\* sends it as a plain-text response with status 200.
healthz_fails_with_failed_session ==
    IF \E c \in Connections : cpc[c] \in {"ws_failed", "sse_failed"}
    THEN [status |-> 500, body |-> "error"]
    ELSE [status |-> 200, body |-> "ok"]

healthz_response == [status |-> 200, body |-> "ok"]

healthz ==
    /\ variant = "bootstrap"
    /\ health' = healthz_response
    /\ UNCHANGED <<variant, wsVars, sseVars, setupVars, demoVars, statsVars,
                   environ, cpc, csid, old_env, store, creates, csession, ctasks,
                   ccleanups>>

\* ------------------------------------------------- environment setup
\* src/chapter1/1-3-1_environment_setup.py: setup_streaming_environment reads
\* the .env file of the working directory, when there is one, into
\* os.environ and reports whether the required variable is there.
required_vars == <<"GOOGLE_API_KEY", "GOOGLE_CLOUD_PROJECT", "GOOGLE_CLOUD_LOCATION">>
RequiredVars == {required_vars[i] : i \in 1..Len(required_vars)}

\* What a variable holds before the script runs, and what a line of the .env
\* file gives it (None: the file has no line for it).
EnvValues == {Unset, "", "from-env"}
FileValues == {None, "", "from-file"}
NoDotenv == [exists |-> FALSE, values |-> [k \in RequiredVars |-> None]]
DotenvFiles == {NoDotenv} \cup [exists : {TRUE}, values : [RequiredVars -> FileValues]]

\* load_dotenv(env_path) with its default override=False: a variable that is
\* already in os.environ, even with an empty value, keeps its value.
load_dotenv(env, file) ==
    [k \in EnvKeys |->
        IF k \in RequiredVars /\ env[k] = Unset /\ file.values[k] # None
        THEN file.values[k]
        ELSE env[k]]

os_getenv(env, var) == env[var]

\* The loop over required_vars from its i-th entry on: the variables it
\* appends to missing_required.
RECURSIVE missing_required(_, _)
missing_required(env, i) ==
    IF i > Len(required_vars)
    THEN <<>>
    ELSE LET var == required_vars[i]
             value == os_getenv(env, var)
         IN  (IF var = "GOOGLE_API_KEY" /\ ~Given(value) THEN <<var>> ELSE <<>>)
                 \o missing_required(env, i + 1)

InitSetup ==
    /\ dotenv = NoDotenv
    /\ setup_result = "not called"

setup_streaming_environment ==
    LET loaded == IF dotenv.exists THEN load_dotenv(environ, dotenv) ELSE environ
    IN  /\ variant = "environment_setup"
        /\ setup_result = "not called"
        /\ environ' = loaded
        /\ setup_result' = IF missing_required(loaded, 1) # <<>> THEN "False" ELSE "True"
        /\ UNCHANGED <<variant, wsVars, sseVars, demoVars, statsVars, dotenv,
                       cpc, csid, old_env, store, creates, csession, ctasks,
                       ccleanups, health>>

\* ----------------------------------------------- concurrent access demo
\* src/chapter2/2-1-1_live_request_queue.py, demonstrate_concurrent_access:
\* asyncio.gather runs two producers and one consumer on one queue.  The
\* event loop runs the task at the head of its ready queue up to the task's
\* next suspension; when nothing is ready it sleeps until the earliest timer.
\* Time is counted in units of the producers' sleep of 0.1 s.
Producers == {"Producer-A", "Producer-B"}
ConsumerName == "Consumer-1"
ProducerCount == 3
ConsumerTotal == 6
SleepTicks == 1
TimeoutTicks == 20

NoTimers == {}

\* asyncio.gather wraps its arguments in tasks in the order they are given.
InitDemo ==
    /\ now = 0
    /\ timers = NoTimers
    /\ runq = <<"Producer-A", "Producer-B", ConsumerName>>
    /\ lrq = <<>>
    /\ ppc = [p \in Producers |-> "new"]
    /\ psent = [p \in Producers |-> 0]
    /\ kpc = "new"
    /\ consumed = 0
    /\ got = <<>>

\* Content(parts=[Part(text=f"Message {i+1} from {name}")])
ProducerMessage(name, i) == [from |-> name, number |-> i]

\* queue.send_content(content) puts the request on the asyncio queue and
\* wakes the consumer when it waits in queue.get(): the consumer becomes
\* ready behind the tasks that are ready already.
WakeGetterNever(q) == q

WakeGetter(q) == IF kpc = "waiting" THEN Append(q, ConsumerName) ELSE q

\* One step of a producer: the next send and the sleep after it, or, after
\* the last sleep, the end of the loop.
producer(p) ==
    /\ variant = "concurrent_access"
    /\ runq # <<>> /\ Head(runq) = p
    /\ IF psent[p] < ProducerCount
       THEN /\ lrq' = Append(lrq, ProducerMessage(p, psent[p] + 1))
            /\ psent' = [psent EXCEPT ![p] = @ + 1]
            /\ runq' = WakeGetter(Tail(runq))
            /\ kpc' = IF kpc = "waiting" THEN "woken" ELSE kpc
            /\ timers' = timers \cup {[task |-> p, when |-> now + SleepTicks]}
            /\ ppc' = [ppc EXCEPT ![p] = "sleeping"]
       ELSE /\ ppc' = [ppc EXCEPT ![p] = "done"]
            /\ runq' = Tail(runq)
            /\ UNCHANGED <<lrq, psent, kpc, timers>>
    /\ UNCHANGED <<variant, wsVars, sseVars, bootVars, setupVars, statsVars,
                   now, consumed, got>>

\* The consumer's timer of asyncio.wait_for(..., timeout=2.0).
ConsumerTimer == {tm \in timers : tm.task = ConsumerName}

\* One step of the consumer: it takes k of the messages that are in the queue
\* (queue.get() does not suspend while the queue has items; with a wait_for
\* that wraps the get in a task the consumer is rescheduled in between) and
\* then ends, is rescheduled, or waits in queue.get() under its timeout.
\* Every request has content, so every one is counted.
consumer(k, yields) ==
    /\ variant = "concurrent_access"
    /\ runq # <<>> /\ Head(runq) = ConsumerName
    /\ k \in 0..Len(lrq)
    /\ k = 0 <=> lrq = <<>>
    /\ k <= ConsumerTotal - consumed
    /\ consumed' = consumed + k
    /\ got' = got \o SubSeq(lrq, 1, k)
    /\ lrq' = SubSeq(lrq, k + 1, Len(lrq))
    /\ IF consumed + k >= ConsumerTotal
       THEN /\ kpc' = "done"
            /\ runq' = Tail(runq)
            /\ timers' = timers \ ConsumerTimer
       ELSE IF k < Len(lrq) \/ (yields /\ k > 0)
       THEN /\ kpc' = "ready"
            /\ runq' = Append(Tail(runq), ConsumerName)
            /\ timers' = timers \ ConsumerTimer
       ELSE /\ kpc' = "waiting"
            /\ runq' = Tail(runq)
            /\ timers' = (timers \ ConsumerTimer)
                            \cup {[task |-> ConsumerName, when |-> now + TimeoutTicks]}
    /\ UNCHANGED <<variant, wsVars, sseVars, bootVars, setupVars, statsVars,
                   now, ppc, psent>>

\* A timer fires: one that is due, or, when no task is ready, the earliest
\* one, to whose time the clock advances.  A producer's sleep ends and the
\* producer is ready; the consumer's timeout ends its wait with TimeoutError
\* and the consumer leaves its loop.
timer_fires(tm) ==
    /\ variant = "concurrent_access"
    /\ tm \in timers
    /\ \/ tm.when <= now
       \/ runq = <<>> /\ \A other \in timers : tm.when <= other.when
    /\ now' = IF tm.when > now THEN tm.when ELSE now
    /\ timers' = timers \ {tm}
    /\ IF tm.task = ConsumerName
       THEN /\ kpc' = "timed_out"
            /\ runq' = SelectSeq(runq, LAMBDA t : t # ConsumerName)
            /\ UNCHANGED ppc
       ELSE /\ ppc' = [ppc EXCEPT ![tm.task] = "ready"]
            /\ runq' = Append(runq, tm.task)
            /\ UNCHANGED kpc
    /\ UNCHANGED <<variant, wsVars, sseVars, bootVars, setupVars, statsVars,
                   lrq, psent, consumed, got>>

\* --------------------------------------------------- message statistics
\* src/chapter3/3-3-1_message_types.py, MessageTypeProcessor: an event is
\* described by what the four blocks of process_message_safely find in it.
\* An attribute is "absent" (hasattr is false), "falsy" (None or empty), "ok"
\* (its sub-handler returns) or "raises" (its sub-handler raises: parts that
\* are None, a blob without mime_type, a function_call that is None or has no
\* arguments attribute).
AttrValues == {"absent", "falsy", "ok", "raises"}
Events == [content : AttrValues, blob : AttrValues,
           control : {"absent", "ok"}, function_call : {"absent", "ok", "raises"}]

StatKeys == {"text_messages", "blob_messages", "control_signals",
             "function_calls", "total_events"}

\* The blocks of the try statement, in order: the counter each one
\* increments, the attribute it tests, and whether the test also asks for a
\* true value (`hasattr(event, 'content') and event.content`).
Blocks == << [counter |-> "text_messages", attr |-> "content", truthy |-> TRUE],
             [counter |-> "blob_messages", attr |-> "blob", truthy |-> TRUE],
             [counter |-> "control_signals", attr |-> "control", truthy |-> FALSE],
             [counter |-> "function_calls", attr |-> "function_call", truthy |-> FALSE] >>

Entered(event, b) ==
    /\ event[b.attr] # "absent"
    /\ b.truthy => event[b.attr] # "falsy"

\* What the sub-handler of block i raises for an attribute that "raises".
RaisedBy(i) == IF i = 1 THEN "TypeError" ELSE "AttributeError"

\* `except Exception` catches the subclasses of Exception.
except_catches_nothing(error) == FALSE

except_Exception(error) == error \in {"TypeError", "AttributeError", "ValueError"}

\* The try body from block i on: the counters it leaves and the exception
\* that ended it, if any.  The counter of a block is incremented after its
\* sub-handler returned.
RECURSIVE try_body(_, _, _)
try_body(stats, event, i) ==
    IF i > Len(Blocks)
    THEN [stats |-> stats, error |-> "none"]
    ELSE LET b == Blocks[i] IN
         IF ~Entered(event, b)
         THEN try_body(stats, event, i + 1)
         ELSE IF event[b.attr] = "raises"
         THEN [stats |-> stats, error |-> RaisedBy(i)]
         ELSE try_body([stats EXCEPT ![b.counter] = @ + 1], event, i + 1)

InitStats ==
    /\ message_stats = [k \in StatKeys |-> 0]
    /\ calls = 0
    /\ escaped = FALSE

\* One call of process_message_safely: total_events is incremented before
\* the try statement; _handle_processing_error only prints.
process_message_safely(event) ==
    LET counted == [message_stats EXCEPT !["total_events"] = @ + 1]
        r == try_body(counted, event, 1)
    IN  /\ variant = "message_types"
        /\ calls < MaxCalls
        /\ ~escaped
        /\ message_stats' = r.stats
        /\ calls' = calls + 1
        /\ escaped' = (r.error # "none" /\ ~except_Exception(r.error))
        /\ UNCHANGED <<variant, wsVars, sseVars, bootVars, setupVars, demoVars>>

\* ---------------------------------------------------------- specification
Init ==
    /\ variant \in Variants
    /\ InitWs(variant)
    /\ InitSse
    /\ InitBoot
    /\ InitSetup
    /\ InitDemo
    /\ InitStats

Next ==
    \/ ClientFrame
    \/ ClientDisconnect
    \/ DeliverDisconnect
    \/ RunLiveYield
    \/ RunLiveComplete
    \/ RunLiveRaise
    \/ DownstreamStep
    \/ UpstreamStep
    \/ OnCompletion
    \/ HandlerResumeWait
    \/ HandlerResumeGather
    \/ \E st \in Streams, sid \in SessionIds, q \in InitialMessages : sse_endpoint(st, sid, q)
    \/ \E st \in Streams : GeneratorStart(st)
    \/ \E st \in Streams : GeneratorYield(st)
    \/ \E st \in Streams : GeneratorComplete(st)
    \/ \E st \in Streams : GeneratorRaise(st)
    \/ \E st \in Streams : GeneratorFinish(st)
    \/ \E st \in Streams : SseDisconnect(st)
    \/ \E sid \in SessionIds, field \in MessageFields :
           sse_send_message(sid, data_get(field, ""))
    \/ \E sid \in SessionIds : sse_close_session(sid)

Spec == Init /\ [][Next]_vars

\* One WebSocket connection of a server built on asyncio.wait, under a fair
\* event loop: the loop runs the callback at the head of ready, so a scheduled
\* task step, done callback or handler resumption is not postponed for ever.
\* Nothing is assumed of the client or of run_live.
WaitInit ==
    /\ variant \in WaitVariants
    /\ InitWs(variant)
    /\ InitSse
    /\ InitBoot
    /\ InitSetup
    /\ InitDemo
    /\ InitStats

EventLoopStep ==
    \/ DownstreamStep
    \/ UpstreamStep
    \/ OnCompletion
    \/ HandlerResumeWait

WaitNext ==
    \/ ClientFrame
    \/ ClientDisconnect
    \/ DeliverDisconnect
    \/ RunLiveYield
    \/ RunLiveComplete
    \/ RunLiveRaise
    \/ EventLoopStep

WaitFairSpec == WaitInit /\ [][WaitNext]_vars /\ WF_vars(EventLoopStep)

\* The SSE endpoints of src/demo/app/main.py under the assumption that
\* run_live terminates once a close request is on its queue, and with a
\* generator that is suspended at the yield of its except clause being
\* resumed or closed by the response (either way its finally clause runs).
SseInit ==
    /\ variant = "sse"
    /\ InitWs(variant)
    /\ InitSse
    /\ InitBoot
    /\ InitSetup
    /\ InitDemo
    /\ InitStats

SseNext ==
    \/ \E st \in Streams, sid \in SessionIds, q \in InitialMessages : sse_endpoint(st, sid, q)
    \/ \E st \in Streams : GeneratorStart(st)
    \/ \E st \in Streams : GeneratorYield(st)
    \/ \E st \in Streams : GeneratorComplete(st)
    \/ \E st \in Streams : GeneratorRaise(st)
    \/ \E st \in Streams : GeneratorFinish(st)
    \/ \E st \in Streams : SseDisconnect(st)
    \/ \E sid \in SessionIds, field \in MessageFields :
           sse_send_message(sid, data_get(field, ""))
    \/ \E sid \in SessionIds : sse_close_session(sid)

\* The SSE endpoints of src/demo/app/main.py with nothing assumed of run_live
\* or of the response.
SseSpec == SseInit /\ [][SseNext]_vars

RunLiveEndsAfterClose(st) ==
    /\ \E i \in 1..Len(sseQueue[st]) : IsClose(sseQueue[st][i])
    /\ (GeneratorComplete(st) \/ GeneratorRaise(st))

\* Each of these steps happens at most once per stream, so fairness of their
\* disjunction is fairness of each.
GeneratorEnds == \E st \in Streams : RunLiveEndsAfterClose(st) \/ GeneratorFinish(st)

SseFairSpec == SseInit /\ [][SseNext]_vars /\ WF_vars(GeneratorEnds)

\* The connections of src/demo/app/main.py from their first statement to
\* their last, with a session store that may fail.
BootInit ==
    /\ variant = "bootstrap"
    /\ InitWs(variant)
    /\ InitSse
    /\ InitBoot
    /\ InitSetup
    /\ InitDemo
    /\ InitStats

BootNext ==
    \/ \E c \in Connections, cred \in CredentialParams, sid \in SessionIds, ok \in BOOLEAN :
           websocket_endpoint(c, cred, sid, ok)
    \/ \E c \in Connections : websocket_endpoint_finally(c)
    \/ \E c \in Connections, cred \in CredentialParams, sid \in SessionIds, ok \in BOOLEAN :
           sse_endpoint_bootstrap(c, cred, sid, ok)
    \/ \E c \in Connections : event_generator_started(c)
    \/ \E c \in Connections : response_abandoned(c)
    \/ \E c \in Connections : stream_completes(c)
    \/ \E c \in Connections : stream_raises(c)
    \/ \E c \in Connections : stream_resumed(c)
    \/ \E c \in Connections : stream_disconnects(c)
    \/ healthz

BootSpec == BootInit /\ [][BootNext]_vars

\* One run of setup_streaming_environment for every environment and every
\* .env file over the values above.
SetupInit ==
    /\ variant = "environment_setup"
    /\ InitWs(variant)
    /\ InitSse
    /\ InitConnections
    /\ environ \in [EnvKeys -> EnvValues]
    /\ environ["GOOGLE_GENAI_USE_VERTEXAI"] = Unset
    /\ dotenv \in DotenvFiles
    /\ setup_result = "not called"
    /\ InitDemo
    /\ InitStats

SetupNext == setup_streaming_environment

SetupSpec == SetupInit /\ [][SetupNext]_vars

\* demonstrate_concurrent_access under a fair event loop: a task that is
\* ready is run and, when none is ready, the earliest timer fires.
DemoInit ==
    /\ variant = "concurrent_access"
    /\ InitWs(variant)
    /\ InitSse
    /\ InitBoot
    /\ InitSetup
    /\ InitDemo
    /\ InitStats

DemoNext ==
    \/ \E p \in Producers : producer(p)
    \/ \E k \in 0..ConsumerTotal, yields \in BOOLEAN : consumer(k, yields)
    \/ \E tm \in timers : timer_fires(tm)

DemoFairSpec == DemoInit /\ [][DemoNext]_vars /\ WF_vars(DemoNext)

\* A MessageTypeProcessor that processes up to MaxCalls events of any kind.
StatsInit ==
    /\ variant = "message_types"
    /\ InitWs(variant)
    /\ InitSse
    /\ InitBoot
    /\ InitSetup
    /\ InitDemo
    /\ InitStats

StatsNext == \E event \in Events : process_message_safely(event)

StatsSpec == StatsInit /\ [][StatsNext]_vars

ConnectionPositions == {"idle", "ws_running", "ws_returned", "ws_failed",
                        "sse_registered", "sse_streaming", "sse_error_yielded",
                        "sse_abandoned", "sse_failed"} \cup SseEnded

TypeOK ==
    /\ variant \in Variants \cup {"bootstrap", "environment_setup",
                                 "concurrent_access", "message_types"}
    /\ now \in 0..ProducerCount * SleepTicks + TimeoutTicks
    /\ ppc \in [Producers -> {"new", "sleeping", "ready", "done"}]
    /\ psent \in [Producers -> 0..ProducerCount]
    /\ kpc \in {"new", "waiting", "woken", "ready", "done", "timed_out"}
    /\ consumed \in 0..ConsumerTotal
    /\ Len(got) = consumed
    /\ message_stats \in [StatKeys -> 0..MaxCalls]
    /\ calls \in 0..MaxCalls
    /\ escaped \in BOOLEAN
    /\ DOMAIN environ = EnvKeys
    /\ cpc \in [Connections -> ConnectionPositions]
    /\ csid \in [Connections -> SessionIds]
    /\ store \subseteq SessionIds
    /\ creates \in [SessionIds -> 0..Cardinality(Connections)]
    /\ csession \in [Connections -> BOOLEAN]
    /\ ctasks \in [Connections -> BOOLEAN]
    /\ ccleanups \in [Connections -> 0..1]
    /\ health \in {NoResponse, healthz_response}
    /\ dotenv \in DotenvFiles
    /\ setup_result \in {"not called", "True", "False"}
    /\ hpc \in {"none", "wait", "returned"}
    /\ delivered \in 0..MaxFrames
    /\ emitted \in 0..MaxEvents
    /\ Len(received) <= MaxFrames


\* ------------------------------------------------------------------ claims
Last(s) == s[Len(s)]
Front(s) == SubSeq(s, 1, Len(s) - 1)

CloseRequests(q) == Count(q, IsClose)
PayloadRequests(q) == Count(q, LAMBDA r : IsText(r) \/ IsBlob(r))
IsError(m) == m.kind = "error"
Errors(o) == Count(o, IsError)

\* A plain-text frame: one that does not validate as a LiveRequest.
PlainText(f) == ~model_validate_json(f).ok

\* C1: in websocket_endpoint of src/demo/app/main.py session.close() is invoked
\* exactly once however the session ends: never twice, once as soon as
\* consume_messages has ended (by a close frame, a disconnect or its
\* cancellation), and consume_messages has ended whenever the handler has
\* returned and the event loop has run every callback it scheduled.
C1_CloseExactlyOnce ==
    variant = "demo_app" =>
        /\ closeCalls <= 1
        /\ Finished(tpc["upstream"]) => closeCalls = 1
        /\ (hpc = "returned" /\ ready = <<>>) => Finished(tpc["upstream"])

\* C1 witness: run_live raised, the handler cancelled consume_messages at its
\* receive, and close() ran once in the finally clause.
C1_Witness ==
    /\ variant = "demo_app"
    /\ tpc["downstream"] = "raised"
    /\ tpc["upstream"] = "cancelled"
    /\ hpc = "returned"
    /\ closeCalls = 1

\* C2 (as claimed): in the bidi-demo handler, once upstream_task has ended on
\* WebSocketDisconnect and the event loop has run every scheduled callback
\* (run_live yields nothing further), live_request_queue.close() was invoked.
C2_DisconnectClosesQueue ==
    (variant = "bidi_demo" /\ tpc["upstream"] = "disconnected" /\ ready = <<>>)
        => closeCalls >= 1

\* C3 (as claimed): in the bidi-demo handler, once run_live has completed or
\* raised while the client stays connected and silent (every scheduled
\* callback has run), the handler has left asyncio.gather and closed the queue.
C3_ServerEndTerminates ==
    (/\ variant = "bidi_demo"
     /\ tpc["downstream"] \in {"completed", "raised"}
     /\ wsOpen
     /\ ready = <<>>)
        => (hpc = "returned" /\ closeCalls >= 1)

\* C4: in the handlers built on asyncio.wait, as soon as one task has finished
\* the handler is scheduled (it does not wait for the second task), and when
\* it has returned every task is finished or has its cancellation under way.
C4_FirstCompletedCancelsOther ==
    variant \in WaitVariants =>
        /\ (hpc = "wait" /\ \E t \in Tasks : Finished(tpc[t]))
              => (InSeq("on_completion", ready) \/ InSeq("handler", ready))
        /\ ncomplete >= 1 => (hpc = "returned" \/ InSeq("handler", ready))
        /\ hpc = "returned" =>
              \A t \in Tasks :
                  \/ Finished(tpc[t])
                  \/ (cancelReq[t] /\ wake[t] = "cancel" /\ InSeq(t, ready))

\* C4 witness: the handler has returned while the other task was still
\* pending, with its cancellation requested.
C4_Witness ==
    /\ variant \in WaitVariants
    /\ hpc = "returned"
    /\ \E t \in Tasks : ~Finished(tpc[t]) /\ cancelReq[t]

C6_CloseFirstDemoApp ==
    (variant = "demo_app" /\ received # <<>> /\ received[1] = CloseFrame)
        => (/\ PayloadRequests(queue) = 0
            /\ CloseRequests(queue) = 1
            /\ closeCalls = 1)

\* C6 witness: the close frame came first and the whole session has ended.
C6_Witness ==
    /\ variant = "demo_app"
    /\ received = <<CloseFrame>>
    /\ hpc = "returned"
    /\ \A t \in Tasks : Finished(tpc[t])

\* C7 (as claimed): the same in ws_handler of the streaming_app servers,
\* counting the close requests put by live_queue.send(req) and by
\* live_queue.close().
C7_CloseFirstStreamingApp ==
    (variant = "streaming_app" /\ received # <<>> /\ received[1] = CloseFrame)
        => (/\ PayloadRequests(queue) = 0
            /\ CloseRequests(queue) = 1)

\* C8 (as claimed): on the queue of an SSE stream no text entry follows a
\* close request (a /sse-send after /sse-close enqueues nothing).
C8_NoWriteAfterClose ==
    \A st \in Streams :
        \A i, j \in 1..Len(sseQueue[st]) :
            (i < j /\ IsClose(sseQueue[st][i])) => ~IsText(sseQueue[st][j])

\* A stream that holds a live queue and a running run_live call.
Live(st) == spc[st] = "next"

\* C9 (as claimed): no two connections with the same session_id hold a live
\* queue and a running run_live call at the same time.
C9_OneLiveStreamPerSession ==
    \A a, b \in Streams :
        (a # b /\ ssid[a] = ssid[b]) => ~(Live(a) /\ Live(b))

\* C10 (as claimed): when run_live has raised, exactly one error message was
\* written (to the WebSocket by forward_events, as an SSE record by
\* event_generator) and it is the last message of the connection.
C10_ExactlyOneError ==
    /\ (variant = "demo_app" /\ tpc["downstream"] = "raised")
          => (Errors(out) = 1 /\ Last(out) = ErrorMsg)
    /\ \A st \in Streams :
          spc[st] \in {"error_yielded", "failed"}
              => (Errors(sseOut[st]) = 1 /\ Last(sseOut[st]) = ErrorMsg)

\* C10 (amended): when run_live has raised, at most one error message was
\* written and nothing follows it; exactly one was written by event_generator,
\* and by forward_events whenever the WebSocket is still connected.
C10_AtMostOneErrorLast ==
    /\ (variant = "demo_app" /\ tpc["downstream"] = "raised")
          => (/\ Errors(out) <= 1
              /\ wsOpen => Errors(out) = 1
              /\ Errors(out) = 1 => Last(out) = ErrorMsg)
    /\ \A st \in Streams :
          spc[st] \in {"error_yielded", "failed"}
              => (Errors(sseOut[st]) = 1 /\ Last(sseOut[st]) = ErrorMsg)

\* C10 witness: run_live raised after one event and the error message is the
\* second and last message on the WebSocket.
C10_Witness ==
    /\ variant = "demo_app"
    /\ tpc["downstream"] = "raised"
    /\ out = <<EventMsg(1), ErrorMsg>>

\* C11 (as claimed): in the bidi-demo downstream_task, when run_live has
\* raised while the client is connected, exactly one error message was
\* written to the WebSocket, as the last message, and the task ended without
\* the exception leaving it.
C11_BidiErrorMessage ==
    (variant = "bidi_demo" /\ tpc["downstream"] = "raised" /\ wsOpen)
        => (Errors(out) = 1 /\ Last(out) = ErrorMsg)

\* C12: in websocket_endpoint of src/demo/app/main.py no exception ever leaves
\* a task, also not when ws.send_text fails on a disconnected transport; and
\* when forward_events has ended on such a failure, session.close() is never
\* invoked twice and has been invoked once when the handler has returned and
\* the event loop has run every callback it scheduled.
C12_SendFailureContained ==
    variant = "demo_app" =>
        /\ \A t \in Tasks : tpc[t] # "crashed"
        /\ tpc["downstream"] = "send_failed" =>
              /\ closeCalls <= 1
              /\ (hpc = "returned" /\ ready = <<>>) =>
                    (closeCalls = 1 /\ \A t \in Tasks : Finished(tpc[t]))

\* C12 witness: the client went away, the send of an event failed,
\* forward_events ended, the handler returned and the cancelled
\* consume_messages closed the queue.
C12_Witness ==
    /\ variant = "demo_app"
    /\ ~wsOpen
    /\ tpc["downstream"] = "send_failed"
    /\ tpc["upstream"] = "cancelled"
    /\ hpc = "returned"
    /\ ready = <<>>
    /\ closeCalls = 1

NotFound == "Session not found or not active"

\* C13 (as claimed): every POST /sse-send and POST /sse-close with a
\* session_id that has no entry in active_sse_sessions returns the not-found
\* error and changes neither the registry nor any queue or stream.
C13_NotFoundEveryPost ==
    [][/\ \A sid \in SessionIds, message \in Messages :
             (active_sse_sessions[sid] = NoStream /\ sse_send_message(sid, message))
                 => (reply' = NotFound
                     /\ UNCHANGED <<active_sse_sessions, sseQueue, spc, sseOut>>)
       /\ \A sid \in SessionIds :
             (active_sse_sessions[sid] = NoStream /\ sse_close_session(sid))
                 => (reply' = NotFound
                     /\ UNCHANGED <<active_sse_sessions, sseQueue, spc, sseOut>>)
      ]_vars

\* C13 (amended): the same for POST /sse-close and for POST /sse-send with a
\* non-empty message; a POST /sse-send with an empty message returns
\* "Message is required" whatever the session_id, also without any change.
C13_NotFoundNoMutation ==
    [][/\ \A sid \in SessionIds, message \in Messages :
             (active_sse_sessions[sid] = NoStream /\ sse_send_message(sid, message))
                 => (/\ reply' = IF message = "" THEN "Message is required" ELSE NotFound
                     /\ UNCHANGED <<active_sse_sessions, sseQueue, spc, sseOut>>)
       /\ \A sid \in SessionIds :
             (active_sse_sessions[sid] = NoStream /\ sse_close_session(sid))
                 => (reply' = NotFound
                     /\ UNCHANGED <<active_sse_sessions, sseQueue, spc, sseOut>>)
      ]_vars

\* C13 witness: a POST for a session_id without entry was answered with the
\* not-found error while another session's stream was live and registered.
C13_Witness ==
    /\ reply = NotFound
    /\ active_sse_sessions["other-session"] = NoStream
    /\ active_sse_sessions[DEFAULT_SESSION_ID] = "first"
    /\ spc["first"] = "next"
    /\ sseQueue["first"] = <<>>

HelloThenClose == variant = "demo_app" /\ received = <<"hello", CloseFrame>>

Terminated == hpc = "returned" /\ \A t \in Tasks : Finished(tpc[t])

\* C14: in websocket_endpoint of src/demo/app/main.py, when the client has
\* sent "hello" and then the close frame, the queue holds the text entry
\* "hello" followed by the close request and nothing else, and the session
\* eventually reaches TERMINATED: the handler has returned and both tasks are
\* finished or cancelled (whether or not run_live ends by itself).
C14_HelloCloseTerminates ==
    /\ [](HelloThenClose =>
            queue = <<LiveRequest(<<"hello">>, <<>>, FALSE), LiveRequest(<<>>, <<>>, TRUE)>>)
    /\ (HelloThenClose ~> Terminated)

\* C14 witness: "hello" and the close frame were received and the session is
\* TERMINATED, forward_events having been cancelled.
C14_Witness ==
    /\ HelloThenClose
    /\ Terminated
    /\ tpc["downstream"] = "cancelled"

\* C15 (as claimed): in the bidi-demo upstream_task, once a frame that
\* declares the close flag has been received the task no longer waits in
\* websocket.receive_text(), and the queue has been closed when the event loop
\* has run every callback it scheduled.
C15_BidiCloseFrameStopsReading ==
    (variant = "bidi_demo" /\ InSeq(CloseFrame, received))
        => (/\ tpc["upstream"] # "susp"
            /\ ready = <<>> => closeCalls >= 1)

\* C16 (as claimed): in the bidi-demo upstream_task no frame ends the task
\* with an exception, and every frame received has put one entry on the
\* queue: its blob or text when it is a typed payload, otherwise the frame
\* itself as plain text.
C16_BidiNeverRejects ==
    variant = "bidi_demo" =>
        /\ tpc["upstream"] # "crashed"
        /\ PayloadRequests(queue) = Len(received)

\* C17 (as claimed): in consume_messages of src/demo/app/main.py every
\* non-empty frame received that is not the close request is on the queue as
\* one text entry carrying the raw frame, in the order received.
C17_NonCloseFramesEnqueued ==
    variant = "demo_app" =>
        Texts(queue) = SelectSeq(received, LAMBDA f : f # CloseFrame /\ f # "")

\* The blobs of the realtime entries of a queue, in order.
RECURSIVE Blobs(_)
Blobs(q) ==
    IF q = <<>> THEN <<>>
    ELSE IF IsBlob(Head(q)) THEN <<Head(q).blob[1]>> \o Blobs(Tail(q))
    ELSE Blobs(Tail(q))

\* The audio frames whose data field is base64 text, and the blob each
\* stands for: "AQIDBA==" is the bytes 1 2 3 4, "/w==" the byte 255.
DecodableAudio == {AudioFrame, AudioMimeFrame}

ExpectedBlob(f) ==
    IF f = AudioFrame THEN [mime_type |-> "audio/pcm;rate=16000", data |-> <<1, 2, 3, 4>>]
    ELSE [mime_type |-> "audio/wav", data |-> <<255>>]

ExpectedText(f) == IF f = TextFrame THEN "hi" ELSE f

\* C18: in the bidi-demo upstream_task every audio frame received (with
\* base64 data) is on the queue as exactly one realtime blob, in the order
\* received, whose bytes are the base64 decoding of its data field and whose
\* MIME type is the declared one, or "audio/pcm;rate=16000" when none is
\* declared; it puts no text entry on the queue: the text entries are those
\* of the text frames and plain-text frames received.
C18_AudioFrameOneBlob ==
    variant = "bidi_demo" =>
        LET audio == SelectSeq(received, LAMBDA f : f \in DecodableAudio)
            texts == SelectSeq(received, LAMBDA f : f \in {"hello", TextFrame})
        IN /\ Blobs(queue) = [i \in 1..Len(audio) |-> ExpectedBlob(audio[i])]
           /\ Texts(queue) = [i \in 1..Len(texts) |-> ExpectedText(texts[i])]
           /\ \A i \in 1..Len(queue) :
                 IsBlob(queue[i]) => (~IsText(queue[i]) /\ ~IsClose(queue[i]))

\* C18 witness: an audio frame without and one with a declared MIME type were
\* received after a plain-text frame, and their two blobs follow the text.
C18_Witness ==
    /\ variant = "bidi_demo"
    /\ received = <<"hello", AudioFrame, AudioMimeFrame>>
    /\ Len(queue) = 3
    /\ IsText(queue[1]) /\ IsBlob(queue[2]) /\ IsBlob(queue[3])

\* C19 (as claimed): in websocket_endpoint of src/demo/app/main.py, in every
\* state where the handler has returned, session.close() has been invoked and
\* neither task is still pending.
C19_ReturnedImpliesCleanedUp ==
    (variant = "demo_app" /\ hpc = "returned")
        => (closeCalls >= 1 /\ \A t \in Tasks : Finished(tpc[t]))

\* C20 (as claimed): in websocket_endpoint of src/demo/app/main.py, while the
\* client is connected forward_events ends only when run_live has ended (by
\* completing or raising), also after the upstream side has sent the close
\* signal: it is never stopped before the event sequence is complete.
C20_ForwardsUntilComplete ==
    (variant = "demo_app" /\ wsOpen /\ Finished(tpc["downstream"]))
        => tpc["downstream"] \in {"completed", "raised"}

\* The serialized messages of the first k events, in the order yielded.
EventRecords(k) == [i \in 1..k |-> [kind |-> "event", n |-> i]]

IsEvent(m) == m.kind = "event"

\* o is one message per event for the first events of n, in order, possibly
\* followed by one error message.
EventsThenError(o, n) ==
    \E k \in 0..n :
        \/ o = EventRecords(k)
        \/ o = EventRecords(k) \o <<[kind |-> "error", n |-> 0]>>

\* C22: the outbound messages of a connection are one serialized message per
\* event run_live yielded, in the order yielded, none duplicated, skipped or
\* altered, possibly followed by one error message; while the downstream
\* side is still consuming, or has seen run_live end, every event yielded so
\* far is among them.  The same holds for the records of an SSE stream.
C22_OutboundIsEventSequence ==
    /\ variant \in WsVariants =>
          /\ EventsThenError(out, emitted)
          /\ (\/ tpc["downstream"] \in {"completed", "raised"}
              \/ tpc["downstream"] = "susp" /\ wake["downstream"] = "none")
                => Count(out, IsEvent) = emitted
    /\ \A st \in Streams :
          /\ EventsThenError(sseOut[st], sseEmitted[st])
          /\ Count(sseOut[st], IsEvent) = sseEmitted[st]

\* C22 witness: run_live yielded two events and raised; the WebSocket got the
\* two events in order and then the error message.
C22_Witness ==
    /\ variant \in WaitVariants
    /\ emitted = 2
    /\ tpc["downstream"] = "raised"
    /\ Len(out) = 3
    /\ out[1].n = 1 /\ out[2].n = 2 /\ IsError(out[3])

C25_NoPostOnCleanedUpSession ==
    /\ [](\A sid \in SessionIds :
            active_sse_sessions[sid] # NoStream
                => spc[active_sse_sessions[sid]] \notin CleanedUp)
    /\ [][\A st \in Streams :
            (sseQueue'[st] # sseQueue[st] /\ spc' = spc)
                => (/\ spc[st] \notin CleanedUp
                    /\ \E sid \in SessionIds : active_sse_sessions[sid] = st)]_vars

\* C25 witness: the first stream was cleaned up, a second stream registered
\* under the same session_id, and a /sse-send reached the second stream.
C25_Witness ==
    /\ spc["first"] \in CleanedUp
    /\ spc["second"] = "next"
    /\ ssid["second"] = ssid["first"]
    /\ reply = "sent"
    /\ Texts(sseQueue["second"]) = <<"hello">>
    /\ Texts(sseQueue["first"]) = <<>>

\* C26 (as claimed): a second close() of a session's queue changes nothing:
\* no queue of an SSE stream ever holds more than one close request.
C26_SecondCloseIsNoOp ==
    \A st \in Streams : CloseRequests(sseQueue[st]) <= 1

\* C23 (as claimed): in src/demo/streaming_app.py, when an SSE stream has
\* ended (run_live completed, run_live raised, or the client disconnected
\* while the generator was running) its request queue has been closed.
C23_StreamingAppSseClosesQueue ==
    variant = "streaming_app_sse" =>
        \A st \in Streams :
            spc[st] \in CleanedUp => CloseRequests(sseQueue[st]) >= 1

\* A stream that is consuming run_live and has a close request on its queue:
\* POST /sse-close succeeded for it.
CloseSignalled(st) == spc[st] = "next" /\ CloseRequests(sseQueue[st]) >= 1

Bootstrapped(c) == cpc[c] \notin {"idle", "ws_failed", "sse_failed"}

BootstrapFailed(c) == cpc[c] \in {"ws_failed", "sse_failed"}

\* C28: when the session store fails during the bootstrap of
\* websocket_endpoint or sse_endpoint of src/demo/app/main.py, the handler
\* ends with that failure before it started a task, and it leaves no partial
\* session: it created no StreamingSession (and so no queue) and
\* active_sse_sessions has no entry for it; the store has no record that no
\* create_session produced.
C28_BootstrapFailureLeavesNothing ==
    /\ \A c \in Connections :
          BootstrapFailed(c) =>
              /\ ~ctasks[c]
              /\ ~csession[c]
              /\ \A sid \in SessionIds : active_sse_sessions[sid] # c
    /\ \A sid \in SessionIds : sid \in store => creates[sid] >= 1

\* Both endpoints have failed at their bootstrap.
C28_Witness ==
    /\ cpc["first"] = "ws_failed"
    /\ cpc["second"] = "sse_failed"
    /\ store = {}

\* A connection that called _set_credentials and has run the code that
\* restores them: the finally clause of websocket_endpoint or cleanup().
Restored(c) == cpc[c] \in {"ws_returned", "ws_failed"} \cup SseEnded

\* C29 (as claimed): once every session of src/demo/app/main.py that called
\* _set_credentials has ended and restored its old_env, each of the four
\* credential variables has the value, or the absence, it had before the
\* first of them started, whatever the order of the starts and the ends.
C29_EnvironmentRestored ==
    ((\E c \in Connections : cpc[c] # "idle")
        /\ \A c \in Connections : cpc[c] = "idle" \/ Restored(c))
    => environ = OriginalEnv

\* C30: setup_streaming_environment returns False exactly when GOOGLE_API_KEY
\* is unset or empty once the .env file has been loaded, and True otherwise,
\* whatever GOOGLE_CLOUD_PROJECT and GOOGLE_CLOUD_LOCATION hold.
C30_FalseIffApiKeyMissing ==
    setup_result # "not called" =>
        /\ setup_result \in {"True", "False"}
        /\ setup_result = "False" <=> environ["GOOGLE_API_KEY"] \in {Unset, ""}

\* The call returned False for a key that is set but empty, with a .env file
\* that names a key and with both optional variables set.
C30_Witness ==
    /\ setup_result = "False"
    /\ environ["GOOGLE_API_KEY"] = ""
    /\ dotenv.exists /\ dotenv.values["GOOGLE_API_KEY"] = "from-file"
    /\ environ["GOOGLE_CLOUD_PROJECT"] = "from-file"
    /\ environ["GOOGLE_CLOUD_LOCATION"] = "from-env"

\* C31: GET /healthz answers with status 200 and the body "ok" in every
\* reachable state of the server: the request can be answered whatever the
\* connections are doing, and every answer given is that one.
C31_HealthzAlwaysOk ==
    /\ ENABLED healthz
    /\ health # NoResponse => (health.status = 200 /\ health.body = "ok")

\* /healthz was answered with one session running and one that failed at its
\* bootstrap.
C31_Witness ==
    /\ health = [status |-> 200, body |-> "ok"]
    /\ cpc["first"] = "ws_running"
    /\ cpc["second"] = "sse_failed"

\* A connection whose event_generator has started and not ended.
Streaming(c) == cpc[c] \in {"sse_streaming", "sse_error_yielded"}

C33_CleanupKeepsOtherEntries ==
    [][\A st \in Streams, other \in Streams, sid \in SessionIds :
          (/\ other # st
           /\ spc[st] \notin CleanedUp /\ spc'[st] \in CleanedUp
           /\ spc[other] = "next"
           /\ active_sse_sessions[sid] = other)
              => active_sse_sessions'[sid] = other]_vars

\* C34 (as claimed): when GET /sse is called with a non-empty initial message
\* q, q is enqueued exactly once and is the first entry of the session's
\* queue, with no /sse-send message ahead of it: the step that starts
\* event_generator leaves q as the first and only text of the queue.
C34_InitialMessageFirst ==
    [][\A st \in Streams :
          (spc[st] = "registered" /\ spc'[st] = "next" /\ sq[st] # "")
              => Texts(sseQueue'[st]) = <<sq[st]>>]_vars

\* A connection whose session is running with the credentials it set.
Active(c) == cpc[c] \in {"ws_running", "sse_registered", "sse_streaming", "sse_error_yielded"}

\* C35 (as claimed): while a session runs with the credentials its own
\* request supplied, no other session changes them: a step of another
\* connection (its set or its restore) leaves every variable that a session
\* set, and that stays active over the step, as it is.
C35_CredentialsIsolated ==
    [][\A c \in Connections, d \in Connections, k \in EnvKeys :
          (/\ c # d
           /\ Active(c) /\ Active(c)'
           /\ old_env[c][k] # NotSaved
           /\ cpc'[d] # cpc[d])
              => environ'[k] = environ[k]]_vars

\* C36 (as claimed): when sse_endpoint fails after _set_credentials has run,
\* or its event_generator is never started, the variables it changed get
\* their previous values back: with no other connection around, the
\* environment is the original one.
C36_SseFailureRestoresCredentials ==
    \A c \in Connections :
        (/\ cpc[c] \in {"sse_failed", "sse_abandoned"}
         /\ \A d \in Connections \ {c} : cpc[d] = "idle")
            => environ = OriginalEnv

\* C37: POST /sse-send with a missing or empty message returns the error
\* "Message is required" and enqueues nothing, whether or not the session_id
\* names an active session; with a non-empty message and an active session
\* it puts exactly one text entry with that message on that session's queue,
\* changes no other queue, and returns the status "sent".
C37_SendRequiresMessage ==
    [][\A sid \in SessionIds, field \in MessageFields :
          LET message == data_get(field, "")
              session == active_sse_sessions[sid]
          IN  sse_send_message(sid, message) =>
                  /\ field \in {NoField, ""} =>
                        (reply' = "Message is required" /\ sseQueue' = sseQueue)
                  /\ (field \notin {NoField, ""} /\ session # NoStream) =>
                        /\ reply' = "sent"
                        /\ Len(sseQueue'[session]) = Len(sseQueue[session]) + 1
                        /\ Texts(sseQueue'[session]) = Append(Texts(sseQueue[session]), field)
                        /\ \A st \in Streams \ {session} : sseQueue'[st] = sseQueue[st]]_vars

\* A message was sent to a registered session whose queue already held the
\* initial message.
C37_Witness ==
    /\ variant = "sse"
    /\ reply = "sent"
    /\ active_sse_sessions[DEFAULT_SESSION_ID] = "first"
    /\ Texts(sseQueue["first"]) = <<"hi", "hello">>

\* The messages the consumer received from producer p, in the order received.
ReceivedFrom(p) == SelectSeq(got, LAMBDA m : m.from = p)

\* C38: in demonstrate_concurrent_access the consumer never hits its
\* timeout, the messages of each producer arrive in the order the producer
\* sent them, and in the end the consumer has received all 6 messages, 3 of
\* each producer, and all three coroutines have terminated.
C38_ConcurrentAccessCompletes ==
    /\ [](kpc # "timed_out")
    /\ [](\A p \in Producers :
             \A i \in 1..Len(ReceivedFrom(p)) : ReceivedFrom(p)[i].number = i)
    /\ <>[](/\ kpc = "done"
            /\ consumed = ConsumerTotal
            /\ Len(got) = ConsumerTotal
            /\ \A p \in Producers : ppc[p] = "done" /\ Len(ReceivedFrom(p)) = ProducerCount)

\* All three coroutines have ended, and in the second round the message of
\* Producer-B arrived before the one of Producer-A.
C38_Witness ==
    /\ kpc = "done"
    /\ \A p \in Producers : ppc[p] = "done"
    /\ Len(got) = ConsumerTotal
    /\ got[3] = ProducerMessage("Producer-B", 2)
    /\ got[4] = ProducerMessage("Producer-A", 2)

\* C39: process_message_safely never lets an exception of a sub-handler
\* escape, increments total_events exactly once per call (total_events is
\* the number of calls), and every other counter stays less than or equal to
\* total_events after any sequence of events.
C39_StatsConsistent ==
    /\ ~escaped
    /\ message_stats["total_events"] = calls
    /\ \A k \in StatKeys : message_stats[k] <= message_stats["total_events"]

\* Three events were processed: the sub-handlers of one returned, one raised
\* in its blob handler after its text was counted, and one raised in the
\* first block.
C39_Witness ==
    /\ calls = 3
    /\ message_stats["text_messages"] = 2
    /\ message_stats["blob_messages"] = 1
    /\ message_stats["control_signals"] = 1
    /\ message_stats["function_calls"] = 1

====
